---- MODULE Spec2Model ----
(***************************************************************************)
(* Model of ml/rl/gym/preprocessors/trainer_preprocessors/                 *)
(* trainer_preprocessor.py: the three factories                            *)
(*   discrete_dqn_trainer_preprocessor(num_actions, ...)                   *)
(*   parametric_dqn_trainer_preprocessor(num_actions, ...)                 *)
(*   sac_trainer_preprocessor()                                            *)
(* each returning a closure preprocess_batch(train_batch).                 *)
(*                                                                         *)
(* A tensor / array is a record [dtype, shape, data] with data the         *)
(* row-major flattening of the elements.  Elements are integers; a bool    *)
(* element is 0 or 1, a uint8 element lies in 0..255, a float element is   *)
(* the integer it is equal to.  A failed tensor operation is the record    *)
(* [err |-> <exception name>].                                             *)
(***************************************************************************)
EXTENDS Integers, Sequences, FiniteSets, TLC

\* ------------------------------------------------------------- bounds ----
MaxBatch == 2       \* largest batch size sampled
MaxActions == 2     \* largest num_actions handed to a factory
MaxWidth == 2       \* largest second dimension of the action array
FeatureDim == 2     \* features per observation

Adapters == {"discrete", "parametric", "sac"}

None == [none |-> TRUE]
NoCall == [status |-> "nocall"]

\* ----------------------------------------------------- tensor library ----
RECURSIVE Numel(_)
Numel(shape) == IF shape = <<>> THEN 1 ELSE Head(shape) * Numel(Tail(shape))

IsErr(t) == "err" \in DOMAIN t

Rank(t) == Len(t.shape)

\* torch.tensor(ndarray): a fresh tensor with the array's dtype, shape and
\* elements (always a copy; the array is left alone).
Tensor(arr) == [dtype |-> arr.dtype, shape |-> arr.shape, data |-> arr.data]

RemoveAt(s, k) == SubSeq(s, 1, k - 1) \o SubSeq(s, k + 1, Len(s))
InsertAt(s, k, x) == SubSeq(s, 1, k - 1) \o <<x>> \o SubSeq(s, k, Len(s))

\* Tensor.squeeze(dim): dim out of range raises IndexError; a dimension of
\* size 1 is removed; a dimension of any other size leaves the tensor as is.
Squeeze_strict(t, dim) ==
    IF IsErr(t) THEN t
    ELSE IF dim >= Rank(t) THEN [err |-> "IndexError"]
    ELSE IF t.shape[dim + 1] = 1
         THEN [t EXCEPT !.shape = RemoveAt(t.shape, dim + 1)]
         ELSE [err |-> "RuntimeError"]

Squeeze(t, dim) ==
    IF IsErr(t) THEN t
    ELSE IF dim >= Rank(t) THEN [err |-> "IndexError"]
    ELSE IF t.shape[dim + 1] = 1
         THEN [t EXCEPT !.shape = RemoveAt(t.shape, dim + 1)]
         ELSE t

\* Tensor.unsqueeze(dim): inserts a dimension of size 1 at position dim.
Unsqueeze_front(t, dim) ==
    IF IsErr(t) THEN t
    ELSE IF dim > Rank(t) THEN [err |-> "IndexError"]
    ELSE [t EXCEPT !.shape = InsertAt(t.shape, 1, 1)]

Unsqueeze(t, dim) ==
    IF IsErr(t) THEN t
    ELSE IF dim > Rank(t) THEN [err |-> "IndexError"]
    ELSE [t EXCEPT !.shape = InsertAt(t.shape, dim + 1, 1)]

\* Tensor.float() / .to(torch.float32)
Float(t) ==
    IF IsErr(t) THEN t ELSE [t EXCEPT !.dtype = "float32"]

\* Tensor.to(torch.uint8): elements wrap modulo 2^8
ToUint8(t) ==
    IF IsErr(t) THEN t
    ELSE [t EXCEPT !.dtype = "uint8",
                   !.data = [p \in 1..Len(t.data) |-> t.data[p] % 256]]

\* Tensor.to(torch.bool): nonzero is True
ToBool(t) ==
    IF IsErr(t) THEN t
    ELSE [t EXCEPT !.dtype = "bool",
                   !.data = [p \in 1..Len(t.data) |->
                                IF t.data[p] # 0 THEN 1 ELSE 0]]

\* c - tensor (Tensor.__rsub__): a uint8 tensor stays uint8 and wraps,
\* a bool tensor cannot be subtracted from.
RSub_flipped(c, t) ==
    IF IsErr(t) THEN t
    ELSE IF t.dtype = "bool" THEN [err |-> "RuntimeError"]
    ELSE IF t.dtype = "uint8"
         THEN [t EXCEPT !.data = [p \in 1..Len(t.data) |->
                                     (t.data[p] - c) % 256]]
         ELSE [t EXCEPT !.data = [p \in 1..Len(t.data) |-> t.data[p] - c]]

RSub(c, t) ==
    IF IsErr(t) THEN t
    ELSE IF t.dtype = "bool" THEN [err |-> "RuntimeError"]
    ELSE IF t.dtype = "uint8"
         THEN [t EXCEPT !.data = [p \in 1..Len(t.data) |->
                                     (c - t.data[p]) % 256]]
         ELSE [t EXCEPT !.data = [p \in 1..Len(t.data) |-> c - t.data[p]]]

\* Tensor.repeat(r, c) of a rank-2 tensor [R, C]: the tensor tiled r times
\* down and c times across, shape [R*r, C*c].
Repeat_swapped(t, r, c) ==
    IF IsErr(t) THEN t
    ELSE IF Rank(t) > 2 THEN [err |-> "RuntimeError"]
    ELSE LET R == IF Rank(t) = 2 THEN t.shape[1] ELSE 1
             C == IF Rank(t) = 0 THEN 1 ELSE t.shape[Rank(t)]
         IN [t EXCEPT !.shape = <<R * c, C * r>>,
                      !.data = [p \in 1..(R * c * C * r) |->
                          t.data[(((p - 1) \div (C * r)) % R) * C
                                 + (((p - 1) % (C * r)) % C) + 1]]]

Repeat_ones(t, r, c) ==
    IF IsErr(t) THEN t
    ELSE IF Rank(t) > 2 THEN [err |-> "RuntimeError"]
    ELSE LET R == IF Rank(t) = 2 THEN t.shape[1] ELSE 1
             C == IF Rank(t) = 0 THEN 1 ELSE t.shape[Rank(t)]
         IN [t EXCEPT !.shape = <<R * r, C * c>>,
                      !.data = [p \in 1..(R * r * C * c) |-> 1]]

Repeat(t, r, c) ==
    IF IsErr(t) THEN t
    ELSE IF Rank(t) > 2 THEN [err |-> "RuntimeError"]
    ELSE LET R == IF Rank(t) = 2 THEN t.shape[1] ELSE 1
             C == IF Rank(t) = 0 THEN 1 ELSE t.shape[Rank(t)]
         IN [t EXCEPT !.shape = <<R * r, C * c>>,
                      !.data = [p \in 1..(R * r * C * c) |->
                          t.data[(((p - 1) \div (C * c)) % R) * C
                                 + (((p - 1) % (C * c)) % C) + 1]]]

\* torch.repeat_interleave(t, repeats, axis=0): every slice along the first
\* axis is repeated `repeats` consecutive times.
RepeatInterleave_tiled(t, repeats) ==
    IF IsErr(t) THEN t
    ELSE IF Rank(t) = 0 THEN [err |-> "IndexError"]
    ELSE LET rowlen == Numel(Tail(t.shape))
             rows == Head(t.shape)
         IN [t EXCEPT !.shape = <<rows * repeats>> \o Tail(t.shape),
                      !.data = [p \in 1..(rows * repeats * rowlen) |->
                          t.data[(((p - 1) \div rowlen) % rows) * rowlen
                                 + ((p - 1) % rowlen) + 1]]]

RepeatInterleave(t, repeats) ==
    IF IsErr(t) THEN t
    ELSE IF Rank(t) = 0 THEN [err |-> "IndexError"]
    ELSE LET rowlen == Numel(Tail(t.shape))
             rows == Head(t.shape)
         IN [t EXCEPT !.shape = <<rows * repeats>> \o Tail(t.shape),
                      !.data = [p \in 1..(rows * repeats * rowlen) |->
                          t.data[(((p - 1) \div rowlen) \div repeats) * rowlen
                                 + ((p - 1) % rowlen) + 1]]]

\* torch.eye(n): the n x n identity, float32
Eye(n) ==
    [dtype |-> "float32", shape |-> <<n, n>>,
     data |-> [p \in 1..(n * n) |->
                  IF (p - 1) \div n = (p - 1) % n THEN 1 ELSE 0]]

\* torch.ones_like(t): same dtype and shape, every element 1
OnesLike_zeros(t) ==
    IF IsErr(t) THEN t
    ELSE [t EXCEPT !.data = [p \in 1..Len(t.data) |-> 0]]

OnesLike(t) ==
    IF IsErr(t) THEN t
    ELSE [t EXCEPT !.data = [p \in 1..Len(t.data) |-> 1]]

\* Tensor.exp(): elementwise; e^x is kept symbolic as <<"exp", x>>
Exp(t) ==
    IF IsErr(t) THEN t
    ELSE [t EXCEPT !.data = [p \in 1..Len(t.data) |-> <<"exp", t.data[p]>>]]

\* PreprocessedFeatureVector(float_features=t)
PreprocessedFeatureVector(t) == [float_features |-> t]

\* ------------------------------------------------------ call outcomes ----
Ok(b) == [status |-> "ok", batch |-> b]
Raise(e, ln) == [status |-> e.err, line |-> ln]
AssertionError(w, n) == [status |-> "AssertionError", line |-> 34, msg |-> <<w, n>>]

\* ---------------------------------------- the sampled transition tuple ----
\* The ten co-indexed arrays of train_batch.  b: batch size, ko / kn: third
\* axis of obs / next_obs (0 means the array is rank 2), w: second dimension
\* of the action arrays, term: the terminal flags, su / sm / sl: which of two
\* contents idxs and next_reward / possible_actions_mask / log_prob hold.
ThirdAxes == {0, 1, 2}
ObsShape(b, k) == IF k = 0 THEN <<b, FeatureDim>> ELSE <<b, FeatureDim, k>>

Array(dt, shp, elems) == [dtype |-> dt, shape |-> shp, data |-> elems]

ObsArray(b, k) ==
    Array("float32", ObsShape(b, k),
          [p \in 1..Numel(ObsShape(b, k)) |-> p])

NextObsArray(b, k) ==
    Array("float32", ObsShape(b, k),
          [p \in 1..Numel(ObsShape(b, k)) |-> 10 + p])

\* one-hot rows: row i holds action (i + shift) mod w
ActionArray(b, w, shift) ==
    Array("float32", <<b, w>>,
          [p \in 1..(b * w) |->
              IF (p - 1) % w = ((p - 1) \div w + shift) % w THEN 1 ELSE 0])

RewardArray(b) == Array("float32", <<b>>, [p \in 1..b |-> p])

NextRewardArray(b, sr) == Array("float32", <<b>>, [p \in 1..b |-> sr])

TerminalArray(b, term) == Array("bool", <<b>>, [p \in 1..b |-> term[p]])

IdxArray(b, si) == Array("int64", <<b>>, [p \in 1..b |-> p + 10 * si])

MaskArray(b, w, sm) ==
    Array("bool", <<b, w>>,
          [p \in 1..(b * w) |-> IF sm = 0 THEN 1 ELSE p % 2])

LogProbArray(b, sl) == Array("float32", <<b>>, [p \in 1..b |-> 0 - sl])

TrainBatch(b, ko, kn, w, term, su, sm, sl) ==
    [obs |-> ObsArray(b, ko),
     action |-> ActionArray(b, w, 0),
     reward |-> RewardArray(b),
     next_obs |-> NextObsArray(b, kn),
     next_action |-> ActionArray(b, w, 1),
     next_reward |-> NextRewardArray(b, su),
     terminal |-> TerminalArray(b, term),
     idxs |-> IdxArray(b, su),
     possible_actions_mask |-> MaskArray(b, w, sm),
     log_prob |-> LogProbArray(b, sl)]

TrainBatches ==
    UNION { { TrainBatch(b, ko, kn, w, term, su, sm, sl) :
                ko \in ThirdAxes, kn \in ThirdAxes, w \in 1..MaxWidth,
                term \in [1..b -> {0, 1}],
                su \in {0, 1}, sm \in {0, 1}, sl \in {0, 1} } :
            b \in 1..MaxBatch }

\* --------------------------------------------------- discrete adapter ----
\* rlt.PreprocessedTrainingBatch(training_input=
\*     rlt.PreprocessedDiscreteDqnInput(...), extras=rlt.ExtraData(...))
DiscreteBatch(obs, action, reward, next_obs, next_action, not_terminal, possible_actions_mask, next_possible_actions_mask, log_prob) ==
    [training_input |->
        [state |-> PreprocessedFeatureVector(obs),
         action |-> action,
         next_state |-> PreprocessedFeatureVector(next_obs),
         next_action |-> next_action,
         possible_actions_mask |-> possible_actions_mask,
         possible_next_actions_mask |-> next_possible_actions_mask,
         reward |-> reward,
         not_terminal |-> not_terminal,
         step |-> None,
         time_diff |-> None],
     extras |->
        [mdp_id |-> None,
         sequence_number |-> None,
         action_probability |-> Exp(log_prob),
         max_num_actions |-> None,
         metrics |-> None]]

\* assert action.size(1) == num_actions
ActionWidthOk_atleast(action, n) == action.shape[2] >= n

ActionWidthOk(action, n) == action.shape[2] = n

\* preprocess_batch of discrete_dqn_trainer_preprocessor(num_actions = n);
\* the statements run in source order and the first one to raise ends the
\* call.
discrete_preprocess_batch(n, tb) ==
    LET obs == Squeeze(Tensor(tb.obs), 2)
        action == Tensor(tb.action)
        reward == Unsqueeze(Tensor(tb.reward), 1)
        next_obs == Squeeze(Tensor(tb.next_obs), 2)
        next_action == Tensor(tb.next_action)
        not_terminal == RSub(1, Float(Unsqueeze(Tensor(tb.terminal), 1)))
        possible_actions_mask == Tensor(tb.possible_actions_mask)
        next_possible_actions_mask == Repeat(not_terminal, 1, n)
        log_prob == Tensor(tb.log_prob)
    IN IF IsErr(obs) THEN Raise(obs, 25)
       ELSE IF IsErr(reward) THEN Raise(reward, 27)
       ELSE IF IsErr(next_obs) THEN Raise(next_obs, 28)
       ELSE IF IsErr(not_terminal) THEN Raise(not_terminal, 30)
       ELSE IF IsErr(next_possible_actions_mask)
            THEN Raise(next_possible_actions_mask, 32)
       ELSE IF Rank(action) < 2 THEN Raise([err |-> "IndexError"], 35)
       ELSE IF ~ActionWidthOk(action, n)
            THEN AssertionError(action.shape[2], n)
       ELSE Ok(DiscreteBatch(obs, action, reward, next_obs, next_action,
                             not_terminal, possible_actions_mask,
                             next_possible_actions_mask, log_prob))

\* ------------------------------------------------- parametric adapter ----
\* rlt.PreprocessedTrainingBatch(rlt.PreprocessedParametricDqnInput(...),
\*     extras=rlt.ExtraData()): ExtraData is given no field.
ParametricBatch(obs, action, next_obs, next_action, reward, not_terminal, possible_actions_mask, tiled_next_state, possible_next_actions, possible_next_actions_mask) ==
    [training_input |->
        [state |-> PreprocessedFeatureVector(obs),
         action |-> PreprocessedFeatureVector(action),
         next_state |-> PreprocessedFeatureVector(next_obs),
         next_action |-> PreprocessedFeatureVector(next_action),
         possible_actions |-> None,
         possible_actions_mask |-> possible_actions_mask,
         possible_next_actions |->
             PreprocessedFeatureVector(possible_next_actions),
         possible_next_actions_mask |-> possible_next_actions_mask,
         tiled_next_state |-> PreprocessedFeatureVector(tiled_next_state),
         reward |-> reward,
         not_terminal |-> not_terminal,
         step |-> None,
         time_diff |-> None],
     extras |-> [f \in {} |-> None]]

\* preprocess_batch of parametric_dqn_trainer_preprocessor(num_actions = n)
parametric_preprocess_batch(n, tb) ==
    LET batch_size == tb.obs.shape[1]
        obs == Squeeze(Tensor(tb.obs), 2)
        action == Float(Tensor(tb.action))
        next_obs == Squeeze(Tensor(tb.next_obs), 2)
        next_action == Float(Tensor(tb.next_action))
        reward == Unsqueeze(Tensor(tb.reward), 1)
        not_terminal == RSub(1, ToUint8(Unsqueeze(Tensor(tb.terminal), 1)))
        possible_actions_mask == ToBool(OnesLike(action))
        tiled_next_state == RepeatInterleave(next_obs, n)
        possible_next_actions == Repeat(Eye(n), batch_size, 1)
        possible_next_actions_mask == ToBool(Repeat(not_terminal, 1, n))
    IN IF IsErr(obs) THEN Raise(obs, 71)
       ELSE IF IsErr(next_obs) THEN Raise(next_obs, 73)
       ELSE IF IsErr(reward) THEN Raise(reward, 75)
       ELSE IF IsErr(not_terminal) THEN Raise(not_terminal, 76)
       ELSE IF IsErr(tiled_next_state) THEN Raise(tiled_next_state, 79)
       ELSE IF IsErr(possible_next_actions_mask)
            THEN Raise(possible_next_actions_mask, 83)
       ELSE Ok(ParametricBatch(obs, action, next_obs, next_action, reward,
                               not_terminal, possible_actions_mask,
                               tiled_next_state, possible_next_actions,
                               possible_next_actions_mask))

\* -------------------------------------------------------- SAC adapter ----
\* rlt.PreprocessedTrainingBatch(training_input=
\*     rlt.PreprocessedPolicyNetworkInput(...), extras=rlt.ExtraData())
SacBatch_forwarding(obs, action, reward, next_obs, next_action, not_terinal, idxs, possible_actions_mask, log_prob) ==
    [training_input |->
        [state |-> PreprocessedFeatureVector(obs),
         action |-> PreprocessedFeatureVector(action),
         next_state |-> PreprocessedFeatureVector(next_obs),
         next_action |-> PreprocessedFeatureVector(next_action),
         reward |-> reward,
         not_terminal |-> not_terinal,
         step |-> None,
         time_diff |-> None],
     extras |-> [sequence_number |-> idxs]]

SacBatch(obs, action, reward, next_obs, next_action, not_terinal, idxs, possible_actions_mask, log_prob) ==
    [training_input |->
        [state |-> PreprocessedFeatureVector(obs),
         action |-> PreprocessedFeatureVector(action),
         next_state |-> PreprocessedFeatureVector(next_obs),
         next_action |-> PreprocessedFeatureVector(next_action),
         reward |-> reward,
         not_terminal |-> not_terinal,
         step |-> None,
         time_diff |-> None],
     extras |-> [f \in {} |-> None]]

\* preprocess_batch of sac_trainer_preprocessor()
sac_preprocess_batch(tb) ==
    LET obs == Squeeze(Tensor(tb.obs), 2)
        action == Float(Tensor(tb.action))
        reward == Unsqueeze(Tensor(tb.reward), 1)
        next_obs == Squeeze(Tensor(tb.next_obs), 2)
        next_action == Tensor(tb.next_action)
        not_terinal == RSub(1, Float(Unsqueeze(Tensor(tb.terminal), 1)))
        idxs == Tensor(tb.idxs)
        possible_actions_mask == Float(Tensor(tb.possible_actions_mask))
        log_prob == Tensor(tb.log_prob)
    IN IF IsErr(obs) THEN Raise(obs, 115)
       ELSE IF IsErr(reward) THEN Raise(reward, 117)
       ELSE IF IsErr(next_obs) THEN Raise(next_obs, 118)
       ELSE IF IsErr(not_terinal) THEN Raise(not_terinal, 120)
       ELSE Ok(SacBatch(obs, action, reward, next_obs, next_action,
                        not_terinal, idxs, possible_actions_mask, log_prob))

\* -------------------------------------------------------------- state ----
VARIABLES
    num_actions,   \* the num_actions closed over by the discrete and the
                   \* parametric closure
    train_batch,   \* the arrays of the sampled tuple, owned by the caller
    results        \* per adapter, the outcome of its call on train_batch
                   \* (NoCall before the first such call)

vars == <<num_actions, train_batch, results>>

\* The factories have run (num_actions is closed over) and the replay buffer
\* has handed the caller a tuple.
Init ==
    /\ num_actions \in [{"discrete", "parametric"} -> 1..MaxActions]
    /\ train_batch \in TrainBatches
    /\ results = [a \in Adapters |-> NoCall]

\* preprocess_batch(train_batch) of each of the three closures.  torch.tensor
\* copies, and no statement of a closure assigns to an array of the tuple or
\* to num_actions.
CallDiscrete_inplace ==
    /\ results' = [results EXCEPT !["discrete"] =
           discrete_preprocess_batch(num_actions["discrete"], train_batch)]
    /\ train_batch' = [train_batch EXCEPT !.terminal.data =
           [p \in 1..Len(train_batch.terminal.data) |->
               1 - train_batch.terminal.data[p]]]
    /\ UNCHANGED num_actions

CallDiscrete ==
    /\ results' = [results EXCEPT !["discrete"] =
           discrete_preprocess_batch(num_actions["discrete"], train_batch)]
    /\ UNCHANGED <<num_actions, train_batch>>

CallParametric ==
    /\ results' = [results EXCEPT !["parametric"] =
           parametric_preprocess_batch(num_actions["parametric"], train_batch)]
    /\ UNCHANGED <<num_actions, train_batch>>

CallSac ==
    /\ results' = [results EXCEPT !["sac"] = sac_preprocess_batch(train_batch)]
    /\ UNCHANGED <<num_actions, train_batch>>

Next ==
    \/ CallDiscrete
    \/ CallParametric
    \/ CallSac

Spec == Init /\ [][Next]_vars

TypeOK ==
    /\ num_actions \in [{"discrete", "parametric"} -> 1..MaxActions]
    /\ train_batch \in TrainBatches
    /\ \A a \in Adapters :
          results[a].status \in
              {"nocall", "ok", "IndexError", "RuntimeError", "AssertionError"}

\* ------------------------------------------------------------ helpers ----
D == results["discrete"]
P == results["parametric"]
S == results["sac"]

BatchSize == train_batch.terminal.shape[1]
Width == train_batch.action.shape[2]
Singleton(arr) == Len(arr.shape) = 3 /\ arr.shape[3] = 1
Rank2(arr) == Len(arr.shape) = 2
Failed(r) == r.status \in {"IndexError", "RuntimeError", "AssertionError"}
NoBatch(r) == "batch" \notin DOMAIN r
\* element [i][j] (1-based) of a rank-2 tensor
At2(t, i, j) == t.data[(i - 1) * t.shape[2] + j]
\* slice i (1-based) along the first axis, flattened
Row(t, i) ==
    LET rowlen == Numel(Tail(t.shape))
    IN SubSeq(t.data, (i - 1) * rowlen + 1, i * rowlen)
OneHot(n, j) == [q \in 1..n |-> IF q = j THEN 1 ELSE 0]

\* C1: discrete adapter, action width equal to num_actions and singleton
\* third axis on obs and next_obs: the call succeeds, not_terminal has shape
\* [batch, 1] and possible_next_actions_mask has shape [batch, num_actions].
C1_DiscreteShapes ==
    (/\ D # NoCall
     /\ Width = num_actions["discrete"]
     /\ Singleton(train_batch.obs)
     /\ Singleton(train_batch.next_obs))
    => /\ D.status = "ok"
       /\ D.batch.training_input.not_terminal.shape = <<BatchSize, 1>>
       /\ D.batch.training_input.possible_next_actions_mask.shape
             = <<BatchSize, num_actions["discrete"]>>

C1_Witness ==
    /\ D.status = "ok"
    /\ Singleton(train_batch.obs) /\ Singleton(train_batch.next_obs)
    /\ BatchSize = MaxBatch
    /\ num_actions["discrete"] = MaxActions

\* C2 as stated: discrete adapter, action width different from num_actions:
\* the call fails with the assertion that reports both widths, and nothing
\* else (no success, no error raised earlier) happens.
C2_AssertOnly ==
    (D # NoCall /\ Width # num_actions["discrete"])
    => /\ D.status = "AssertionError"
       /\ D.msg = <<Width, num_actions["discrete"]>>
       /\ NoBatch(D)

\* C2 amended: with a width different from num_actions the call never
\* returns a batch; it fails with the assertion reporting both widths when
\* obs and next_obs are rank 3, and with the IndexError of the squeeze at
\* line 25 / 28, raised before the assertion is reached, when obs / next_obs
\* is rank 2.
C2_AssertAfterConversions ==
    (D # NoCall /\ Width # num_actions["discrete"])
    => /\ NoBatch(D)
       /\ IF Rank2(train_batch.obs)
          THEN D.status = "IndexError" /\ D.line = 25
          ELSE IF Rank2(train_batch.next_obs)
          THEN D.status = "IndexError" /\ D.line = 28
          ELSE /\ D.status = "AssertionError"
               /\ D.msg = <<Width, num_actions["discrete"]>>

C2_Witness ==
    /\ D.status = "AssertionError"
    /\ Width > num_actions["discrete"]

\* C3: in all three adapters not_terminal is the [batch, 1] column with
\* not_terminal[i][0] = 1 - terminal[i], also where the subtraction is done
\* in uint8 (parametric).
C3_NotTerminal ==
    \A a \in Adapters :
        results[a].status = "ok" =>
            LET nt == results[a].batch.training_input.not_terminal
            IN /\ nt.shape = <<BatchSize, 1>>
               /\ \A i \in 1..BatchSize :
                     At2(nt, i, 1) = 1 - train_batch.terminal.data[i]

C3_Witness ==
    /\ \A a \in Adapters : results[a].status = "ok"
    /\ \E i, k \in 1..BatchSize :
          train_batch.terminal.data[i] = 1 /\ train_batch.terminal.data[k] = 0

\* C4: parametric adapter, batch size B, N actions: tiled_next_state has B*N
\* slices and slice i*N + j is next_obs[i]; possible_next_actions is
\* [B*N, N] and its row i*N + j is the one-hot vector of action j.
C4_Tiling ==
    P.status = "ok" =>
        LET N == num_actions["parametric"]
            tiled == P.batch.training_input.tiled_next_state.float_features
            pna == P.batch.training_input.possible_next_actions.float_features
            nxt == train_batch.next_obs
        IN /\ tiled.shape[1] = BatchSize * N
           /\ Len(tiled.data) = BatchSize * N * Numel(Tail(nxt.shape))
           /\ pna.shape = <<BatchSize * N, N>>
           /\ \A i \in 0..(BatchSize - 1), j \in 0..(N - 1) :
                 /\ Row(tiled, i * N + j + 1) = Row(nxt, i + 1)
                 /\ Row(pna, i * N + j + 1) = OneHot(N, j + 1)

C4_Witness ==
    /\ P.status = "ok"
    /\ Singleton(train_batch.next_obs)
    /\ BatchSize >= 2
    /\ num_actions["parametric"] >= 2

\* possible_next_actions_mask is the broadcast not-terminal column
MaskIsBroadcast(r, n) ==
    LET m == r.batch.training_input.possible_next_actions_mask
    IN /\ m.shape = <<BatchSize, n>>
       /\ \A i \in 1..BatchSize, j \in 1..n :
             At2(m, i, j) = IF train_batch.terminal.data[i] = 1 THEN 0 ELSE 1

MaskVariants ==
    { [train_batch EXCEPT !.possible_actions_mask = MaskArray(BatchSize, Width, sm)] :
        sm \in {0, 1} }

\* C5: discrete and parametric adapters: possible_next_actions_mask[i][j] is
\* 0 when terminal[i] = 1 and 1 when terminal[i] = 0, for every j below
\* num_actions, and a tuple that differs only in its possible-actions-mask
\* yields the same possible_next_actions_mask.
C5_NextMask ==
    /\ D.status = "ok" =>
          /\ MaskIsBroadcast(D, num_actions["discrete"])
          /\ \A tb \in MaskVariants :
                discrete_preprocess_batch(num_actions["discrete"], tb)
                    .batch.training_input.possible_next_actions_mask
                = D.batch.training_input.possible_next_actions_mask
    /\ P.status = "ok" =>
          /\ MaskIsBroadcast(P, num_actions["parametric"])
          /\ \A tb \in MaskVariants :
                parametric_preprocess_batch(num_actions["parametric"], tb)
                    .batch.training_input.possible_next_actions_mask
                = P.batch.training_input.possible_next_actions_mask

C5_Witness ==
    /\ D.status = "ok" /\ P.status = "ok"
    /\ num_actions["parametric"] >= 2
    /\ \E i, k \in 1..BatchSize :
          train_batch.terminal.data[i] = 1 /\ train_batch.terminal.data[k] = 0

\* C6: parametric adapter: possible_actions_mask is all true with the shape
\* of the action array, whatever the tuple's possible-actions-mask; the
\* discrete adapter returns the tuple's possible-actions-mask as it is.
C6_CurrentMask ==
    /\ P.status = "ok" =>
          LET m == P.batch.training_input.possible_actions_mask
          IN /\ m.dtype = "bool"
             /\ m.shape = train_batch.action.shape
             /\ \A p \in 1..Len(m.data) : m.data[p] = 1
             /\ Len(m.data) = BatchSize * Width
             /\ \A tb \in MaskVariants :
                   parametric_preprocess_batch(num_actions["parametric"], tb)
                       .batch.training_input.possible_actions_mask = m
    /\ D.status = "ok" =>
          LET m == D.batch.training_input.possible_actions_mask
          IN /\ m.shape = train_batch.possible_actions_mask.shape
             /\ m.data = train_batch.possible_actions_mask.data

C6_Witness ==
    /\ P.status = "ok" /\ D.status = "ok"
    /\ \E p \in 1..Len(train_batch.possible_actions_mask.data) :
          train_batch.possible_actions_mask.data[p] = 0

\* C7 as stated: in every adapter, an obs or next_obs array without the
\* singleton third axis (rank 2, or a third axis of another size) makes the
\* call fail and return no batch.
C7_ShapeErrorAlways ==
    \A a \in Adapters :
        (/\ results[a] # NoCall
         /\ ~(Singleton(train_batch.obs) /\ Singleton(train_batch.next_obs)))
        => Failed(results[a]) /\ NoBatch(results[a])

\* C7 amended: a rank-2 obs or next_obs makes the call fail with the
\* IndexError of squeeze(2) and return no batch; a rank-3 array whose third
\* axis is not 1 raises nothing in squeeze(2) and is passed on as it is, so
\* the call returns (unless the discrete width assertion fails) a batch
\* whose state / next_state features have the array's own rank-3 shape.
C7_SqueezeOnlyChecksRank ==
    \A a \in Adapters :
        results[a] # NoCall =>
            IF Rank2(train_batch.obs) \/ Rank2(train_batch.next_obs)
            THEN results[a].status = "IndexError" /\ NoBatch(results[a])
            ELSE /\ results[a].status \in {"ok", "AssertionError"}
                 /\ a # "discrete" => results[a].status = "ok"
                 /\ results[a].status = "ok" =>
                       LET ti == results[a].batch.training_input
                           Kept(arr) == IF arr.shape[3] = 1
                                        THEN <<arr.shape[1], arr.shape[2]>>
                                        ELSE arr.shape
                       IN /\ ti.state.float_features.shape = Kept(train_batch.obs)
                          /\ ti.state.float_features.data = train_batch.obs.data
                          /\ ti.next_state.float_features.shape
                                = Kept(train_batch.next_obs)
                          /\ ti.next_state.float_features.data
                                = train_batch.next_obs.data

C7_Witness ==
    /\ \A a \in Adapters : results[a].status = "ok"
    /\ Len(train_batch.obs.shape) = 3 /\ train_batch.obs.shape[3] = 2
    /\ Len(S.batch.training_input.state.float_features.shape) = 3

SacVariants ==
    { [train_batch EXCEPT !.idxs = IdxArray(BatchSize, si),
                          !.possible_actions_mask = MaskArray(BatchSize, Width, sm),
                          !.log_prob = LogProbArray(BatchSize, sl),
                          !.next_reward = NextRewardArray(BatchSize, sr)] :
        si \in {0, 1}, sm \in {0, 1}, sl \in {0, 1}, sr \in {0, 1} }

\* C9: SAC adapter: tuples that differ only in idxs, possible-actions-mask,
\* log-probability or next-reward have the same outcome; a returned batch
\* holds state, action, next_state, next_action, reward, not_terminal and an
\* empty step and time_diff, its extras hold no populated field, and no
\* action width makes the call fail.
C9_SacIgnores ==
    S # NoCall =>
        /\ \A tb \in SacVariants : sac_preprocess_batch(tb) = S
        /\ S.status # "AssertionError"
        /\ S.status = "ok" <=>
              ~(Rank2(train_batch.obs) \/ Rank2(train_batch.next_obs))
        /\ S.status = "ok" =>
              /\ DOMAIN S.batch.training_input =
                    {"state", "action", "next_state", "next_action", "reward",
                     "not_terminal", "step", "time_diff"}
              /\ S.batch.training_input.step = None
              /\ S.batch.training_input.time_diff = None
              /\ \A f \in DOMAIN S.batch.extras : S.batch.extras[f] = None

C9_Witness ==
    /\ S.status = "ok"
    /\ train_batch.idxs = IdxArray(BatchSize, 1)
    /\ train_batch.log_prob = LogProbArray(BatchSize, 1)
    /\ Cardinality(SacVariants) = 16

\* C10: parametric adapter: the action width never fails the call (it fails
\* exactly when obs or next_obs is rank 2); the batch has possible_actions_mask
\* of the action array's width and possible_next_actions_mask and
\* possible_next_actions of width num_actions, so the two masks have the
\* same shape exactly when the width equals num_actions.
C10_ParametricNoWidthCheck ==
    P # NoCall =>
        /\ P.status # "AssertionError"
        /\ P.status = "ok" <=>
              ~(Rank2(train_batch.obs) \/ Rank2(train_batch.next_obs))
        /\ P.status = "ok" =>
              LET ti == P.batch.training_input
              IN /\ ti.possible_actions_mask.shape = <<BatchSize, Width>>
                 /\ ti.possible_next_actions_mask.shape
                       = <<BatchSize, num_actions["parametric"]>>
                 /\ ti.possible_next_actions.float_features.shape[2]
                       = num_actions["parametric"]
                 /\ (ti.possible_actions_mask.shape
                        = ti.possible_next_actions_mask.shape)
                    <=> (Width = num_actions["parametric"])

C10_Witness ==
    /\ P.status = "ok"
    /\ Width # num_actions["parametric"]
    /\ P.batch.training_input.possible_actions_mask.shape
          # P.batch.training_input.possible_next_actions_mask.shape
====
